---------------------------- MODULE Spec2Model ----------------------------
(***************************************************************************)
(* Current Reality Tree editor (ARA): the graph store of App.tsx and the   *)
(* pointer-driven interaction state of CurrentRealityTree.tsx and          *)
(* NodeComponent.tsx, as a state machine with one action per DOM event.    *)
(*                                                                         *)
(* React state is modelled as the variables below; every event handler     *)
(* runs to completion on the state of the last render, and all the state   *)
(* updates it queues are applied before the next event is handled.         *)
(* Pointer coordinates are canvas-relative (clientX - paneRect.left).      *)
(* Ids produced by generateId are modelled as fresh naturals.              *)
(***************************************************************************)
EXTENDS Integers, Sequences, FiniteSets, TLC

VARIABLES
    nodes,                  \* App: useState<Node[]>
    edges,                  \* App: useState<Edge[]>
    defaultNodeSize,        \* App: useState({width, height})
    selectedNodeId,         \* App: useState<string | null>
    aiSuggestions,          \* App: useState<string[]>
    isAnalyzing,            \* App: useState(false)
    aiError,                \* App: useState<string | null>, TRUE when a message is set
    draggingNode,           \* CurrentRealityTree: useState<string | null>
    dragOffset,             \* CurrentRealityTree: useState({x, y})
    pendingEdge,            \* CurrentRealityTree: useState<PendingEdge | null>
    selectedEdgeId,         \* CurrentRealityTree: useState<string | null>
    potentialTargetNodeId,  \* CurrentRealityTree: useState<string | null>
    isResizing,             \* NodeComponent: the ids whose component has isResizing
    resizeStartInfo,        \* NodeComponent: resizeStartInfo.current, per resizing id
    isPdfConfigModalOpen,   \* App: useState(false)
    drawn,                  \* render: the calls of calculateIntersectionPointWithNodeBoundary
                            \* made by the last render, with their results
    exportPc,               \* handleConfirmDownloadPdf: "idle", "wait" (the 50 ms
                            \* timeout), "capture" (html2canvas pending)
    nextId,                 \* number of ids generateId has produced
    lastOp,                 \* history: the last event handled and its arguments
    steps,                  \* history: number of events handled so far
    calls                   \* history: number of direct store calls made so far

vars == <<nodes, edges, defaultNodeSize, selectedNodeId, aiSuggestions, isAnalyzing,
          aiError, draggingNode, dragOffset, pendingEdge, selectedEdgeId,
          potentialTargetNodeId, isResizing, resizeStartInfo, isPdfConfigModalOpen,
          exportPc, drawn, nextId, lastOp, steps, calls>>

storeVars == <<nodes, edges, defaultNodeSize, selectedNodeId>>
aiVars == <<aiSuggestions, isAnalyzing, aiError>>
dragVars == <<draggingNode, dragOffset>>
connectVars == <<pendingEdge, potentialTargetNodeId>>
resizeVars == <<isResizing, resizeStartInfo>>
pdfVars == <<isPdfConfigModalOpen, exportPc>>

----------------------------------------------------------------------------
(* Program constants *)

NODE_WIDTH == 200
NODE_HEIGHT == 70
PORT_SIZE == 10
MIN_NODE_WIDTH == 60
MIN_NODE_HEIGHT == 40

(* Bounds of the model *)

MaxSteps == 7      \* events handled in one behaviour of Spec
MaxStoreSteps == 6 \* events and calls handled in one behaviour of SpecStore
MaxCalls == 1      \* direct store calls in one behaviour of SpecStore
MaxIds == 4        \* ids generateId may hand out in one behaviour
MaxNodes == 2      \* nodes on the canvas at one time
MaxCoord == 120    \* largest node coordinate a drag may produce
MaxWidth == 200    \* largest width a resize gesture may produce
MaxHeight == 100   \* largest height a resize gesture may produce
MaxHoverSteps == 3 \* events handled in one behaviour of SpecHover
MaxHoverNodes == 3 \* nodes on the canvas of SpecHover
MaxExportSteps == 6 \* events handled in one behaviour of SpecExport
MaxBoundarySteps == 3 \* events handled in one behaviour of SpecBoundary
MaxSuggestSteps == 5 \* events and calls handled in one behaviour of SpecSuggest
MantissaBits == 12 \* significand bits of a number (53 in the program)

(* Input sets *)

NoId == 0
Ids == 1..MaxIds
Null == [null |-> TRUE]
NodeTypes == {"UDE", "CAUSE"}
Texts == {"txt"}
Suggestions == {"s1"}
SuggestionTexts == {"s1", ""}        \* strings the suggestion service may return
RandX == {50}                       \* Math.random() * 300 + 50
RandY == {50}                       \* Math.random() * 200 + 50
Pointers == {<<150, 55>>, <<220, 85>>}  \* canvas-relative pointer positions
Dims == {<<20, 20>>, <<130, 100>>}      \* sizes passed to the dimension setters
HoverX == {50, 60}                      \* x of the nodes of SpecHover
\* cursor positions around the top-center port (150, 50) of a node at (50, 50)
\* cursor positions inside, on the center of and around a node at (50, 50)
BoundaryPointers == {<<53, 85>>, <<53, 52>>, <<51, 51>>, <<150, 85>>, <<150, 200>>,
                     <<300, 300>>}
\* position and size of the nodes of SpecBoundary
Boxes == {<<50, 50, 200, 70>>, <<120, 80, 200, 70>>, <<50, 50, 130, 100>>}
HoverPointers == {<<150, 55>>, <<165, 74>>, <<165, 75>>, <<150, 76>>, <<150, 27>>,
                  <<300, 300>>}

Max(a, b) == IF a >= b THEN a ELSE b

----------------------------------------------------------------------------
(* Helpers over the node and edge lists *)

NodeIds == {nodes[i].id : i \in DOMAIN nodes}
EdgeIds == {edges[i].id : i \in DOMAIN edges}

\* nodes.find(n => n.id === id): the first match
find(ns, id) == ns[CHOOSE i \in DOMAIN ns :
                      ns[i].id = id /\ \A j \in DOMAIN ns : ns[j].id = id => i <= j]

has(ns, id) == \E i \in DOMAIN ns : ns[i].id = id

DefaultText(type) == IF type = "UDE" THEN "Novo EI" ELSE "Nova Causa"

generateId == nextId + 1

----------------------------------------------------------------------------
(* Graph store: the pure effect of each App.tsx operation on its list *)

MutNewNodeConstantSize(type, text, x, y) ==
    [id |-> generateId, text |-> IF text = "" THEN DefaultText(type) ELSE text, x |-> x, y |-> y, type |-> type,
     width |-> NODE_WIDTH, height |-> NODE_HEIGHT]

\* text || default: an empty text is replaced like an omitted one
newNode(type, text, x, y) ==
    [id |-> generateId, text |-> IF text = "" THEN DefaultText(type) ELSE text,
     x |-> x, y |-> y, type |-> type,
     width |-> defaultNodeSize.width, height |-> defaultNodeSize.height]

updateNodeText(ns, nodeId, newText) ==
    [i \in DOMAIN ns |-> IF ns[i].id = nodeId THEN [ns[i] EXCEPT !.text = newText]
                                              ELSE ns[i]]

MutUpdatePositionDropsId(ns, nodeId, x, y) ==
    [i \in DOMAIN ns |-> IF ns[i].id = nodeId
                         THEN [ns[i] EXCEPT !.x = x, !.y = y, !.id = NoId]
                         ELSE ns[i]]

updateNodePosition(ns, nodeId, x, y) ==
    [i \in DOMAIN ns |-> IF ns[i].id = nodeId THEN [ns[i] EXCEPT !.x = x, !.y = y]
                                              ELSE ns[i]]

MutDimensionsNoClamp(ns, nodeId, newWidth, newHeight) ==
    [i \in DOMAIN ns |-> IF ns[i].id = nodeId
                         THEN [ns[i] EXCEPT !.width = newWidth, !.height = newHeight]
                         ELSE ns[i]]

handleUpdateNodeDimensions(ns, nodeId, newWidth, newHeight) ==
    [i \in DOMAIN ns |-> IF ns[i].id = nodeId
                         THEN [ns[i] EXCEPT !.width = Max(MIN_NODE_WIDTH, newWidth),
                                            !.height = Max(MIN_NODE_HEIGHT, newHeight)]
                         ELSE ns[i]]

MutDefaultSizeNoClamp(newWidth, newHeight) ==
    [width |-> newWidth, height |-> newHeight]

handleSetDefaultNodeSize(newWidth, newHeight) ==
    [width |-> Max(MIN_NODE_WIDTH, newWidth), height |-> Max(MIN_NODE_HEIGHT, newHeight)]

deleteNodeNodes(ns, nodeId) == SelectSeq(ns, LAMBDA n : n.id # nodeId)

deleteNodeEdges(es, nodeId) ==
    SelectSeq(es, LAMBDA e : e.sourceId # nodeId /\ e.targetId # nodeId)

MutDeleteNodeKeepsSelection(sel, nodeId) == sel

deleteNodeSelection(sel, nodeId) == IF sel = nodeId THEN NoId ELSE sel

MutAddEdgeNoSelfCheck(es, sourceId, targetId, newId) ==
    IF \E i \in DOMAIN es : es[i].sourceId = sourceId /\ es[i].targetId = targetId
    THEN es
    ELSE Append(es, [id |-> newId, sourceId |-> sourceId, targetId |-> targetId])

MutAddEdgeNoDupCheck(es, sourceId, targetId, newId) ==
    IF sourceId = targetId
    THEN es
    ELSE Append(es, [id |-> newId, sourceId |-> sourceId, targetId |-> targetId])

\* newId is the value generateId returns if the edge is created
addEdge(es, sourceId, targetId, newId) ==
    IF sourceId = targetId
       \/ \E i \in DOMAIN es : es[i].sourceId = sourceId /\ es[i].targetId = targetId
    THEN es
    ELSE Append(es, [id |-> newId, sourceId |-> sourceId, targetId |-> targetId])

deleteEdge(es, edgeId) == SelectSeq(es, LAMBDA e : e.id # edgeId)

----------------------------------------------------------------------------
(* Interaction helpers *)

\* lastOp: the handler that ran, its id arguments, and what it read before acting
\* (id2 of a cancelling handler: the pending edge's source, id2 of deleteNode:
\* the selected node, hot: potentialTargetNodeId, edgesLen: the length of the
\* edge list, pt: a
\* numeric pair argument)
Op(name, id, id2, arg) ==
    [op |-> name, id |-> id, id2 |-> id2, arg |-> arg, hot |-> NoId,
     edgesLen |-> Len(edges), pt |-> <<0, 0>>]

\* the source of the pending edge, NoId when there is none
pendingSource == IF pendingEdge # Null THEN pendingEdge.sourceId ELSE NoId

\* Twice the distance test of handleMouseMoveInPane, kept in integers:
\* sqrt((mx - (x + w/2))^2 + (my - (y + PORT_SIZE/2))^2) < PORT_SIZE * 2.5
nearPort(n, mx, my) ==
    LET ddx == 2 * mx - (2 * n.x + n.width)
        ddy == 2 * my - (2 * n.y + PORT_SIZE)
    IN  ddx * ddx + ddy * ddy < (5 * PORT_SIZE) * (5 * PORT_SIZE)

\* the loop of handleMouseMoveInPane: the first node, not the source, near the cursor
hotTarget(ns, sourceId, mx, my) ==
    LET hits == {i \in DOMAIN ns : ns[i].id # sourceId /\ nearPort(ns[i], mx, my)}
    IN  IF hits = {} THEN NoId
        ELSE ns[CHOOSE i \in hits : \A j \in hits : i <= j].id

\* a NodeComponent, and its local state, lives as long as its node is in the list
mounted(ns, ids) == {i \in ids : has(ns, i)}
mountedInfo(ns, info) == [i \in Ids |-> IF has(ns, i) THEN info[i] ELSE Null]

\* the buttons of a node are rendered when it is selected and not being resized
buttonsShown(id) == has(nodes, id) /\ selectedNodeId = id /\ id \notin isResizing

\* an edge is drawn (and can be clicked) only when both its nodes are found
edgeDrawn(e) == has(nodes, e.sourceId) /\ has(nodes, e.targetId)

----------------------------------------------------------------------------
(* Initial state: the editor after the first render *)

Init ==
    /\ nodes = <<>>
    /\ edges = <<>>
    /\ defaultNodeSize = [width |-> NODE_WIDTH, height |-> NODE_HEIGHT]
    /\ selectedNodeId = NoId
    /\ aiSuggestions = <<>>
    /\ isAnalyzing = FALSE
    /\ aiError = FALSE
    /\ draggingNode = NoId
    /\ dragOffset = [x |-> 0, y |-> 0]
    /\ pendingEdge = Null
    /\ selectedEdgeId = NoId
    /\ potentialTargetNodeId = NoId
    /\ isResizing = {}
    /\ resizeStartInfo = [i \in Ids |-> Null]
    /\ isPdfConfigModalOpen = FALSE
    /\ exportPc = "idle"
    /\ drawn = <<>>
    /\ nextId = 0
    /\ lastOp = Op("init", NoId, NoId, "")
    /\ steps = 0
    /\ calls = 0

----------------------------------------------------------------------------
(* Toolbar and node buttons *)

\* Toolbar: onClick={() => onAddNode(type)}; "Adicionar Causa" is disabled
\* while nothing is selected.  text, x and y are omitted.
ToolbarAddNode(type, x, y) ==
    /\ type = "CAUSE" => selectedNodeId # NoId
    /\ Len(nodes) < MaxNodes
    /\ nextId < MaxIds
    /\ nodes' = Append(nodes, newNode(type, DefaultText(type), x, y))
    /\ nextId' = nextId + 1
    /\ lastOp' = Op("addNode", generateId, NoId, type)
    /\ UNCHANGED <<edges, defaultNodeSize, selectedNodeId, aiVars, dragVars,
                   connectVars, selectedEdgeId, resizeVars>>

\* NodeComponent "Definir como Tamanho Padrao" button
SetDefaultSizeClick(id) ==
    /\ buttonsShown(id)
    /\ LET n == find(nodes, id) IN
         /\ ~(n.width = defaultNodeSize.width /\ n.height = defaultNodeSize.height)
         /\ defaultNodeSize' = handleSetDefaultNodeSize(n.width, n.height)
    /\ lastOp' = Op("setDefaultNodeSize", id, NoId, "")
    /\ UNCHANGED <<nodes, edges, selectedNodeId, aiVars, dragVars, connectVars,
                   selectedEdgeId, resizeVars, nextId>>

MutStartConnectTopCenter(nodeId) ==
    IF ~has(nodes, nodeId)
    THEN UNCHANGED <<pendingEdge, selectedNodeId, selectedEdgeId, potentialTargetNodeId>>
    ELSE LET node == find(nodes, nodeId) IN
         /\ pendingEdge' = [sourceId |-> nodeId,
                            sourceX |-> node.x + node.width \div 2,
                            sourceY |-> node.y,
                            mouseX |-> node.x + node.width \div 2,
                            mouseY |-> node.y + node.height]
         /\ selectedNodeId' = nodeId
         /\ selectedEdgeId' = NoId
         /\ potentialTargetNodeId' = NoId

\* handleStartConnectFromNode
startConnectFromNode(nodeId) ==
    IF ~has(nodes, nodeId)
    THEN UNCHANGED <<pendingEdge, selectedNodeId, selectedEdgeId, potentialTargetNodeId>>
    ELSE LET node == find(nodes, nodeId) IN
         /\ pendingEdge' = [sourceId |-> nodeId,
                            sourceX |-> node.x + node.width \div 2,
                            sourceY |-> node.y + node.height,
                            mouseX |-> node.x + node.width \div 2,
                            mouseY |-> node.y + node.height]
         /\ selectedNodeId' = nodeId
         /\ selectedEdgeId' = NoId
         /\ potentialTargetNodeId' = NoId

\* NodeComponent "Iniciar Conexao" button
StartConnectClick(id) ==
    /\ buttonsShown(id)
    /\ startConnectFromNode(id)
    /\ lastOp' = Op("startConnect", id, NoId, "")
    /\ UNCHANGED <<nodes, edges, defaultNodeSize, aiVars, dragVars, resizeVars, nextId>>

\* handleStartConnectFromNode called with the id of a node that is not in the list
StartConnectMissing(id) ==
    /\ ~has(nodes, id)
    /\ startConnectFromNode(id)
    /\ lastOp' = Op("startConnect", id, NoId, "")
    /\ UNCHANGED <<nodes, edges, defaultNodeSize, aiVars, dragVars, resizeVars, nextId>>

\* App.deleteNode, and the unmount of the deleted node's component
deleteNode(nodeId) ==
    /\ nodes' = deleteNodeNodes(nodes, nodeId)
    /\ edges' = deleteNodeEdges(edges, nodeId)
    /\ selectedNodeId' = deleteNodeSelection(selectedNodeId, nodeId)
    /\ isResizing' = mounted(deleteNodeNodes(nodes, nodeId), isResizing)
    /\ resizeStartInfo' = mountedInfo(deleteNodeNodes(nodes, nodeId), resizeStartInfo)
    /\ lastOp' = Op("deleteNode", nodeId, selectedNodeId, "")
    /\ UNCHANGED <<defaultNodeSize, aiVars, dragVars, connectVars, selectedEdgeId, nextId>>

\* NodeComponent "Deletar No" button
DeleteClick(id) ==
    /\ buttonsShown(id)
    /\ deleteNode(id)

\* NodeComponent textarea blur / Enter: handleTextBlur
TextBlur(id, editText) ==
    /\ has(nodes, id)
    /\ nodes' = updateNodeText(nodes, id,
                    IF editText = "" THEN DefaultText(find(nodes, id).type) ELSE editText)
    /\ lastOp' = Op("textBlur", id, NoId, "")
    /\ UNCHANGED <<edges, defaultNodeSize, selectedNodeId, aiVars, dragVars,
                   connectVars, selectedEdgeId, resizeVars, nextId>>

----------------------------------------------------------------------------
(* Pointer events on nodes and ports *)

\* NodeComponent onMouseDown on the node body: onClick (handleNodeClick) and then
\* onDragStart (handleNodeDragStart), both on the state of the same render
\* (a node that is resizing ignores the press: if (!isResizing && ...))
NodeMouseDown(id, p) ==
    /\ has(nodes, id)
    /\ IF id \in isResizing
       THEN UNCHANGED <<dragVars, selectedNodeId, selectedEdgeId, connectVars>>
       ELSE /\ LET node == find(nodes, id) IN
                 /\ draggingNode' = id
                 /\ dragOffset' = [x |-> p[1] - node.x, y |-> p[2] - node.y]
            /\ selectedNodeId' = id
            /\ selectedEdgeId' = NoId
            /\ pendingEdge' = Null
            /\ potentialTargetNodeId' = NoId
    /\ lastOp' = Op("nodeMouseDown", id, pendingSource,
                    IF id \in isResizing THEN "ignored" ELSE "")
    /\ UNCHANGED <<nodes, edges, defaultNodeSize, aiVars, resizeVars, nextId>>

\* NodeComponent handleResizeMouseDown; the handle is rendered when isSelected
ResizeMouseDown(id, p) ==
    /\ has(nodes, id)
    /\ selectedNodeId = id
    /\ LET node == find(nodes, id) IN
         resizeStartInfo' = [resizeStartInfo EXCEPT ![id] =
                                [initialMouseX |-> p[1], initialMouseY |-> p[2],
                                 initialWidth |-> node.width,
                                 initialHeight |-> node.height]]
    /\ isResizing' = isResizing \cup {id}
    /\ lastOp' = Op("resizeMouseDown", id, NoId, "")
    /\ UNCHANGED <<storeVars, aiVars, dragVars, connectVars, selectedEdgeId, nextId>>

\* handlePortMouseDown, portType = 'source'
PortMouseDownSource(nodeId, p) ==
    /\ has(nodes, nodeId)
    /\ pendingEdge' = [sourceId |-> nodeId, sourceX |-> p[1], sourceY |-> p[2],
                       mouseX |-> p[1], mouseY |-> p[2]]
    /\ selectedNodeId' = nodeId
    /\ selectedEdgeId' = NoId
    /\ potentialTargetNodeId' = NoId
    /\ lastOp' = [Op("portMouseDown", nodeId, NoId, "source") EXCEPT !.pt = p]
    /\ UNCHANGED <<nodes, edges, defaultNodeSize, aiVars, dragVars, resizeVars, nextId>>

MutPressCommitsNeedsHot(nodeId) ==
    /\ pendingEdge # Null
    /\ pendingEdge.sourceId # nodeId
    /\ potentialTargetNodeId = nodeId

\* the condition of the target branch of handlePortMouseDown
pressCommits(nodeId) ==
    /\ pendingEdge # Null
    /\ pendingEdge.sourceId # nodeId

MutPressCommitsToHotTarget(nodeId) ==
    /\ has(nodes, nodeId)
    /\ IF pressCommits(nodeId)
       THEN /\ edges' = addEdge(edges, pendingEdge.sourceId,
                                IF potentialTargetNodeId # NoId
                                THEN potentialTargetNodeId ELSE nodeId, generateId)
            /\ edges' # edges => nextId < MaxIds
            /\ nextId' = IF edges' # edges THEN nextId + 1 ELSE nextId
            /\ pendingEdge' = Null
            /\ potentialTargetNodeId' = NoId
       ELSE UNCHANGED <<edges, nextId, connectVars>>
    /\ lastOp' = [Op("portMouseDown", nodeId,
                      IF pendingEdge # Null THEN pendingEdge.sourceId ELSE NoId, "target")
                    EXCEPT !.hot = potentialTargetNodeId]
    /\ UNCHANGED <<nodes, defaultNodeSize, selectedNodeId, aiVars, dragVars,
                   selectedEdgeId, resizeVars>>

\* handlePortMouseDown, portType = 'target'
PortMouseDownTarget(nodeId) ==
    /\ has(nodes, nodeId)
    /\ IF pressCommits(nodeId)
       THEN /\ edges' = addEdge(edges, pendingEdge.sourceId, nodeId, generateId)
            /\ edges' # edges => nextId < MaxIds
            /\ nextId' = IF edges' # edges THEN nextId + 1 ELSE nextId
            /\ pendingEdge' = Null
            /\ potentialTargetNodeId' = NoId
       ELSE UNCHANGED <<edges, nextId, connectVars>>
    /\ lastOp' = [Op("portMouseDown", nodeId,
                      IF pendingEdge # Null THEN pendingEdge.sourceId ELSE NoId, "target")
                    EXCEPT !.hot = potentialTargetNodeId]
    /\ UNCHANGED <<nodes, defaultNodeSize, selectedNodeId, aiVars, dragVars,
                   selectedEdgeId, resizeVars>>

\* document 'mouseup' listeners: globalMouseUp -> handleNodeDragEnd, and the
\* handleGlobalMouseUp of every resizing NodeComponent
documentMouseUp ==
    /\ draggingNode' = NoId
    /\ UNCHANGED dragOffset
    /\ isResizing' = {}
    /\ resizeStartInfo' = [i \in Ids |-> Null]

MutReleaseNeverCommits(nodeId) == FALSE
MutReleaseCommitsAnyTarget(nodeId) == TRUE

\* the inner condition of handlePortMouseUp
releaseCommits(nodeId) == potentialTargetNodeId = nodeId

\* handlePortMouseUp on a target port.  The port's onMouseUp stops the propagation,
\* so handleMouseUpInPane does not run; whether the document listeners still run
\* depends on where React attaches its root listener (docFires).
PortMouseUpTarget(nodeId, docFires) ==
    /\ has(nodes, nodeId)
    /\ IF pendingEdge # Null /\ pendingEdge.sourceId # nodeId
       THEN /\ edges' = IF releaseCommits(nodeId)
                        THEN addEdge(edges, pendingEdge.sourceId, nodeId, generateId)
                        ELSE edges
            /\ edges' # edges => nextId < MaxIds
            /\ nextId' = IF edges' # edges THEN nextId + 1 ELSE nextId
            /\ pendingEdge' = Null
            /\ potentialTargetNodeId' = NoId
       ELSE UNCHANGED <<edges, nextId, connectVars>>
    /\ IF docFires THEN documentMouseUp ELSE UNCHANGED <<dragVars, resizeVars>>
    /\ lastOp' = [Op("portMouseUp", nodeId,
                      IF pendingEdge # Null THEN pendingEdge.sourceId ELSE NoId, "target")
                    EXCEPT !.hot = potentialTargetNodeId]
    /\ UNCHANGED <<nodes, defaultNodeSize, selectedNodeId, aiVars, selectedEdgeId>>

\* mouseup on a source port: the port only stops the propagation
PortMouseUpSource(nodeId, docFires) ==
    /\ has(nodes, nodeId)
    /\ IF docFires THEN documentMouseUp ELSE UNCHANGED <<dragVars, resizeVars>>
    /\ lastOp' = Op("portMouseUp", nodeId, NoId, "source")
    /\ UNCHANGED <<storeVars, aiVars, connectVars, selectedEdgeId, nextId>>

MutMouseUpCancelsOverHotTarget(inPane) ==
    /\ IF inPane /\ pendingEdge # Null
       THEN /\ pendingEdge' = Null
            /\ potentialTargetNodeId' = NoId
       ELSE UNCHANGED connectVars
    /\ documentMouseUp
    /\ lastOp' = [Op("mouseUp", NoId, pendingSource, IF inPane THEN "pane" ELSE "outside")
                    EXCEPT !.hot = potentialTargetNodeId]
    /\ UNCHANGED <<storeVars, aiVars, selectedEdgeId, nextId>>

MutMouseUpKeepsPending(inPane) ==
    /\ UNCHANGED connectVars
    /\ documentMouseUp
    /\ lastOp' = [Op("mouseUp", NoId, pendingSource, IF inPane THEN "pane" ELSE "outside")
                    EXCEPT !.hot = potentialTargetNodeId]
    /\ UNCHANGED <<storeVars, aiVars, selectedEdgeId, nextId>>

\* mouseup anywhere else: handleMouseUpInPane when it bubbles to the pane
\* (inPane), and the document listeners
MouseUp(inPane) ==
    /\ IF inPane /\ pendingEdge # Null /\ potentialTargetNodeId = NoId
       THEN /\ pendingEdge' = Null
            /\ potentialTargetNodeId' = NoId
       ELSE UNCHANGED connectVars
    /\ documentMouseUp
    /\ lastOp' = [Op("mouseUp", NoId, pendingSource, IF inPane THEN "pane" ELSE "outside")
                    EXCEPT !.hot = potentialTargetNodeId]
    /\ UNCHANGED <<storeVars, aiVars, selectedEdgeId, nextId>>

----------------------------------------------------------------------------
(* Pointer moves *)

resizedWidth(info, p) == Max(MIN_NODE_WIDTH, info.initialWidth + (p[1] - info.initialMouseX))
resizedHeight(info, p) == Max(MIN_NODE_HEIGHT, info.initialHeight + (p[2] - info.initialMouseY))

\* handleGlobalMouseMove of every NodeComponent that is resizing
RECURSIVE resizeAll(_, _, _)
resizeAll(ns, ids, p) ==
    IF ids = {} THEN ns
    ELSE LET id == CHOOSE i \in ids : TRUE
             info == resizeStartInfo[id]
         IN  resizeAll(IF info # Null
                       THEN handleUpdateNodeDimensions(ns, id, resizedWidth(info, p),
                                                       resizedHeight(info, p))
                       ELSE ns,
                       ids \ {id}, p)

MutDragKeepsY(ns, p) ==
    IF draggingNode # NoId /\ has(ns, draggingNode)
    THEN updateNodePosition(ns, draggingNode, p[1] - dragOffset.x,
                            find(ns, draggingNode).y)
    ELSE ns

\* globalMouseMove -> handleNodeDrag
dragTo(ns, p) ==
    IF draggingNode # NoId
    THEN updateNodePosition(ns, draggingNode, p[1] - dragOffset.x, p[2] - dragOffset.y)
    ELSE ns

inBounds(ns) ==
    \A i \in DOMAIN ns : /\ ns[i].x \in 0..MaxCoord
                         /\ ns[i].y \in 0..MaxCoord
                         /\ ns[i].width <= MaxWidth
                         /\ ns[i].height <= MaxHeight

\* One mousemove: handleMouseMoveInPane when the pointer is over the pane
\* (inPane), and the document listeners of the drag and of the resize
MouseMove(p, inPane) ==
    /\ IF inPane /\ pendingEdge # Null
       THEN /\ pendingEdge' = [pendingEdge EXCEPT !.mouseX = p[1], !.mouseY = p[2]]
            /\ potentialTargetNodeId' = hotTarget(nodes, pendingEdge.sourceId, p[1], p[2])
       ELSE UNCHANGED connectVars
    /\ nodes' = resizeAll(dragTo(nodes, p), isResizing, p)
    /\ nodes' # nodes => inBounds(nodes')
    /\ lastOp' = Op("mouseMove", NoId, NoId, IF inPane THEN "pane" ELSE "outside")
    /\ UNCHANGED <<edges, defaultNodeSize, selectedNodeId, aiVars, dragVars,
                   selectedEdgeId, resizeVars, nextId>>

----------------------------------------------------------------------------
(* Clicks and keys *)

MutPaneClickKeepsPending ==
    /\ selectedNodeId' = NoId
    /\ selectedEdgeId' = NoId
    /\ UNCHANGED connectVars
    /\ lastOp' = Op("paneClick", NoId, pendingSource, "")
    /\ UNCHANGED <<nodes, edges, defaultNodeSize, aiVars, dragVars, resizeVars, nextId>>

\* handlePaneClick with the pane itself as the target
PaneClick ==
    /\ selectedNodeId' = NoId
    /\ selectedEdgeId' = NoId
    /\ IF pendingEdge # Null
       THEN /\ pendingEdge' = Null
            /\ potentialTargetNodeId' = NoId
       ELSE UNCHANGED connectVars
    /\ lastOp' = Op("paneClick", NoId, pendingSource, "")
    /\ UNCHANGED <<nodes, edges, defaultNodeSize, aiVars, dragVars, resizeVars, nextId>>

MutEdgeClickKeepsNode(sel) == sel

\* the node selection after handleEdgeClick
edgeClickNodeSelection(sel) == NoId

\* handleEdgeClick on a drawn edge
EdgeClick(edgeId) ==
    /\ \E i \in DOMAIN edges : edges[i].id = edgeId /\ edgeDrawn(edges[i])
    /\ selectedEdgeId' = edgeId
    /\ selectedNodeId' = edgeClickNodeSelection(selectedNodeId)
    /\ pendingEdge' = Null
    /\ potentialTargetNodeId' = NoId
    /\ lastOp' = Op("edgeClick", edgeId, pendingSource, "")
    /\ UNCHANGED <<nodes, edges, defaultNodeSize, aiVars, dragVars, resizeVars, nextId>>

MutEdgeDeleteKeepsSelection(edgeId) ==
    /\ \E i \in DOMAIN edges : edges[i].id = edgeId /\ edgeDrawn(edges[i])
    /\ selectedEdgeId = edgeId
    /\ edges' = deleteEdge(edges, edgeId)
    /\ UNCHANGED selectedEdgeId
    /\ lastOp' = Op("edgeDeleteClick", edgeId, NoId, "")
    /\ UNCHANGED <<nodes, defaultNodeSize, selectedNodeId, aiVars, dragVars,
                   connectVars, resizeVars, nextId>>

\* the delete mark drawn on the selected edge: onDeleteEdge and setSelectedEdgeId(null)
EdgeDeleteClick(edgeId) ==
    /\ \E i \in DOMAIN edges : edges[i].id = edgeId /\ edgeDrawn(edges[i])
    /\ selectedEdgeId = edgeId
    /\ edges' = deleteEdge(edges, edgeId)
    /\ selectedEdgeId' = NoId
    /\ lastOp' = Op("edgeDeleteClick", edgeId, NoId, "")
    /\ UNCHANGED <<nodes, defaultNodeSize, selectedNodeId, aiVars, dragVars,
                   connectVars, resizeVars, nextId>>

MutEscapeKeepsHot ==
    /\ pendingEdge' = Null
    /\ UNCHANGED potentialTargetNodeId
    /\ lastOp' = [Op("escape", NoId, pendingSource, "")
                    EXCEPT !.hot = potentialTargetNodeId]
    /\ UNCHANGED <<storeVars, aiVars, dragVars, selectedEdgeId, resizeVars, nextId>>

\* the document keydown listener of CurrentRealityTree
KeyEscape ==
    /\ IF pendingEdge # Null
       THEN /\ pendingEdge' = Null
            /\ potentialTargetNodeId' = NoId
       ELSE UNCHANGED connectVars
    /\ lastOp' = [Op("escape", NoId, pendingSource, "")
                    EXCEPT !.hot = potentialTargetNodeId]
    /\ UNCHANGED <<storeVars, aiVars, dragVars, selectedEdgeId, resizeVars, nextId>>

----------------------------------------------------------------------------
(* Suggestion panel *)

hasUDEs == \E i \in DOMAIN nodes : nodes[i].type = "UDE"

\* Toolbar "Analisar EIs com IA" (disabled without UDEs or while analyzing):
\* handleAnalyzeUDEs up to its await
AnalyzeClick ==
    /\ hasUDEs
    /\ ~isAnalyzing
    /\ isAnalyzing' = TRUE
    /\ aiError' = FALSE
    /\ aiSuggestions' = <<>>
    /\ lastOp' = Op("analyze", NoId, NoId, "start")
    /\ UNCHANGED <<storeVars, dragVars, connectVars, selectedEdgeId, resizeVars, nextId>>

\* analyzeUDEsForRootCauses resolves with the list suggestions
AnalyzeResolve(suggestions) ==
    /\ isAnalyzing
    /\ aiSuggestions' = suggestions
    /\ aiError' = (Len(suggestions) = 0)
    /\ isAnalyzing' = FALSE
    /\ lastOp' = Op("analyze", NoId, NoId, "resolve")
    /\ UNCHANGED <<storeVars, dragVars, connectVars, selectedEdgeId, resizeVars, nextId>>

MutAnalyzeRejectSilent ==
    /\ isAnalyzing
    /\ isAnalyzing' = FALSE
    /\ lastOp' = Op("analyze", NoId, NoId, "reject")
    /\ UNCHANGED <<storeVars, aiSuggestions, aiError, dragVars, connectVars,
                   selectedEdgeId, resizeVars, nextId>>

\* analyzeUDEsForRootCauses rejects
AnalyzeReject ==
    /\ isAnalyzing
    /\ aiError' = TRUE
    /\ isAnalyzing' = FALSE
    /\ lastOp' = Op("analyze", NoId, NoId, "reject")
    /\ UNCHANGED <<storeVars, aiSuggestions, dragVars, connectVars, selectedEdgeId,
                   resizeVars, nextId>>

RECURSIVE maxBottom(_, _)
maxBottom(ns, i) ==
    IF i = 0 THEN 0
    ELSE Max(ns[i].y + (IF ns[i].height # 0 THEN ns[i].height ELSE NODE_HEIGHT),
             maxBottom(ns, i - 1))

MutSuggestionLinksAnySelection(suggestionText, x) ==
    LET lastNodeY == IF Len(nodes) > 0 THEN maxBottom(nodes, Len(nodes)) ELSE 50
        newY == lastNodeY + 30
        sel == has(nodes, selectedNodeId)
        newX == IF sel THEN find(nodes, selectedNodeId).x ELSE x
        newCauseNode == newNode("CAUSE", suggestionText, newX, newY)
    IN  /\ Len(nodes) < MaxNodes
        /\ nextId + 1 < MaxIds
        /\ nodes' = Append(nodes, newCauseNode)
        /\ edges' = IF sel
                    THEN addEdge(edges, newCauseNode.id, selectedNodeId, generateId + 1)
                    ELSE edges
        /\ nextId' = IF edges' # edges THEN nextId + 2 ELSE nextId + 1
        /\ aiSuggestions' = SelectSeq(aiSuggestions, LAMBDA t : t # suggestionText)
        /\ lastOp' = Op("addSuggestion", newCauseNode.id, selectedNodeId, suggestionText)
        /\ UNCHANGED <<defaultNodeSize, selectedNodeId, isAnalyzing, aiError, dragVars,
                       connectVars, selectedEdgeId, resizeVars>>

\* addAISuggestionAsCause
addAISuggestionAsCause(suggestionText, x) ==
    LET lastNodeY == IF Len(nodes) > 0 THEN maxBottom(nodes, Len(nodes)) ELSE 50
        newY == lastNodeY + 30
        sel == has(nodes, selectedNodeId)
        newX == IF sel THEN find(nodes, selectedNodeId).x ELSE x
        newCauseNode == newNode("CAUSE", suggestionText, newX, newY)
        linked == sel /\ find(nodes, selectedNodeId).type = "UDE"
    IN  /\ Len(nodes) < MaxNodes
        /\ nextId + 1 < MaxIds
        /\ nodes' = Append(nodes, newCauseNode)
        /\ edges' = IF linked
                    THEN addEdge(edges, newCauseNode.id, selectedNodeId, generateId + 1)
                    ELSE edges
        /\ nextId' = IF edges' # edges THEN nextId + 2 ELSE nextId + 1
        /\ aiSuggestions' = SelectSeq(aiSuggestions, LAMBDA t : t # suggestionText)
        /\ lastOp' = Op("addSuggestion", newCauseNode.id, selectedNodeId, suggestionText)
        /\ UNCHANGED <<defaultNodeSize, selectedNodeId, isAnalyzing, aiError, dragVars,
                       connectVars, selectedEdgeId, resizeVars>>

\* "Adicionar como Causa": listed when not analyzing, enabled while a UDE is selected
AddSuggestionClick(suggestionText) ==
    /\ ~isAnalyzing
    /\ \E i \in DOMAIN aiSuggestions : aiSuggestions[i] = suggestionText
    /\ has(nodes, selectedNodeId)
    /\ find(nodes, selectedNodeId).type = "UDE"
    /\ \E x \in RandX : addAISuggestionAsCause(suggestionText, x)

\* addAISuggestionAsCause called with any string, whatever is selected
AddSuggestionCall(suggestionText) ==
    \E x \in RandX : addAISuggestionAsCause(suggestionText, x)

----------------------------------------------------------------------------
(* PDF export *)

\* Toolbar "Baixar PDF" (disabled without nodes): handleOpenPdfConfigModal
OpenPdfConfigModal ==
    /\ nodes # <<>>
    /\ isPdfConfigModalOpen' = TRUE
    /\ lastOp' = Op("openPdfConfigModal", NoId, NoId, "")
    /\ UNCHANGED <<storeVars, aiVars, dragVars, connectVars, selectedEdgeId, resizeVars,
                   exportPc, nextId>>

\* PdfConfigModal onClose: the close mark and "Cancelar"
PdfModalClose ==
    /\ isPdfConfigModalOpen
    /\ isPdfConfigModalOpen' = FALSE
    /\ lastOp' = Op("closePdfConfigModal", NoId, NoId, "")
    /\ UNCHANGED <<storeVars, aiVars, dragVars, connectVars, selectedEdgeId, resizeVars,
                   exportPc, nextId>>

\* PdfConfigModal "Salvar PDF": handleConfirmDownloadPdf up to its first await
ConfirmDownloadPdf ==
    /\ isPdfConfigModalOpen
    /\ exportPc = "idle"
    /\ IF nodes = <<>>
       THEN /\ isPdfConfigModalOpen' = FALSE
            /\ lastOp' = Op("confirmDownloadPdf", NoId, NoId, "alert")
            /\ UNCHANGED <<selectedNodeId, exportPc>>
       ELSE /\ selectedNodeId' = NoId
            /\ exportPc' = "wait"
            /\ lastOp' = Op("confirmDownloadPdf", selectedNodeId, selectedEdgeId, "")
            /\ UNCHANGED isPdfConfigModalOpen
    /\ UNCHANGED <<nodes, edges, defaultNodeSize, aiVars, dragVars, connectVars,
                   selectedEdgeId, resizeVars, nextId>>

\* the 50 ms timeout fires: html2canvas is called on the drawing pane as it is
\* rendered now (id, id2 of lastOp: the node and the edge selected in it)
ExportCapture ==
    /\ exportPc = "wait"
    /\ exportPc' = "capture"
    /\ lastOp' = Op("exportCapture", selectedNodeId, selectedEdgeId, "")
    /\ UNCHANGED <<storeVars, aiVars, dragVars, connectVars, selectedEdgeId, resizeVars,
                   isPdfConfigModalOpen, nextId>>

\* html2canvas resolves and the PDF is saved; finally: setIsPdfConfigModalOpen(false)
ExportResolve ==
    /\ exportPc = "capture"
    /\ exportPc' = "idle"
    /\ isPdfConfigModalOpen' = FALSE
    /\ lastOp' = Op("exportEnd", NoId, NoId, "saved")
    /\ UNCHANGED <<storeVars, aiVars, dragVars, connectVars, selectedEdgeId, resizeVars,
                   nextId>>

\* html2canvas or jsPDF throws: catch (console.error, alert) and finally
ExportReject ==
    /\ exportPc = "capture"
    /\ exportPc' = "idle"
    /\ isPdfConfigModalOpen' = FALSE
    /\ lastOp' = Op("exportEnd", NoId, NoId, "alert")
    /\ UNCHANGED <<storeVars, aiVars, dragVars, connectVars, selectedEdgeId, resizeVars,
                   nextId>>

----------------------------------------------------------------------------
(* Numbers: IEEE 754 binary floating point, round to nearest, ties to even,  *)
(* with MantissaBits significand bits.  A number is [m, e], its value is     *)
(* m * 2^e, with 2^(MantissaBits-1) <= |m| < 2^MantissaBits, or m = 0, e = 0 *)

Zero == [m |-> 0, e |-> 0]
Infinity == [inf |-> TRUE]

Abs(n) == IF n < 0 THEN -n ELSE n

RECURSIVE bitLength(_)
bitLength(n) == IF n = 0 THEN 0 ELSE 1 + bitLength(n \div 2)

\* the number nearest to n * 2^e
flRound(n, e) ==
    LET a == Abs(n)
        k == bitLength(a) - MantissaBits
        sgn == IF n < 0 THEN -1 ELSE 1
    IN  IF a = 0 THEN Zero
        ELSE IF k <= 0 THEN [m |-> sgn * a * 2^(0 - k), e |-> e + k]
        ELSE LET q == a \div 2^k
                 r == a % 2^k
                 half == 2^(k - 1)
                 up == r > half \/ (r = half /\ q % 2 = 1)
                 q2 == IF up THEN q + 1 ELSE q
             IN  IF q2 = 2^MantissaBits
                 THEN [m |-> sgn * 2^(MantissaBits - 1), e |-> e + k + 1]
                 ELSE [m |-> sgn * q2, e |-> e + k]

flInt(n) == flRound(n, 0)
flNeg(a) == [m |-> 0 - a.m, e |-> a.e]
flAbs(a) == [m |-> Abs(a.m), e |-> a.e]

\* a * b
flMul(a, b) == flRound(a.m * b.m, a.e + b.e)

\* a / b, b # 0: the quotient to MantissaBits + 2 bits and a sticky bit
flDiv(a, b) ==
    IF a.m = 0 THEN Zero
    ELSE LET n == Abs(a.m) * 2^(MantissaBits + 1)
             q == n \div Abs(b.m)
             sticky == IF n % Abs(b.m) # 0 THEN 1 ELSE 0
             sgn == IF (a.m > 0) = (b.m > 0) THEN 1 ELSE -1
         IN  flRound(sgn * (2 * q + sticky), a.e - b.e - MantissaBits - 2)

\* a + b
flAdd(a, b) ==
    IF a.m = 0 THEN b
    ELSE IF b.m = 0 THEN a
    ELSE LET hi == IF a.e >= b.e THEN a ELSE b
             lo == IF a.e >= b.e THEN b ELSE a
             d == hi.e - lo.e
         IN  IF d > MantissaBits + 2 THEN hi
             ELSE flRound(hi.m * 2^d + lo.m, lo.e)

flSub(a, b) == flAdd(a, flNeg(b))
flLess(a, b) == flSub(a, b).m < 0

\* Math.min, Math.max, Math.sign
mathMin(a, b) ==
    IF a = Infinity THEN b
    ELSE IF b = Infinity THEN a
    ELSE IF flLess(b, a) THEN b ELSE a
mathMax(a, b) == IF flLess(a, b) THEN b ELSE a
mathSign(a) == flInt(IF a.m > 0 THEN 1 ELSE IF a.m < 0 THEN -1 ELSE 0)

----------------------------------------------------------------------------
(* Edge geometry *)

\* the center of a node, as the render computes it for the target point
nodeCenter(node) ==
    [x |-> flAdd(flInt(node.x), flDiv(flInt(node.width), flInt(2))),
     y |-> flAdd(flInt(node.y), flDiv(flInt(node.height), flInt(2)))]

MutCenterFallbackTop(node) == [x |-> nodeCenter(node).x, y |-> flInt(node.y)]

\* the point returned when the target is the center of the node
centerFallback(node) ==
    [x |-> nodeCenter(node).x, y |-> flAdd(flInt(node.y), flInt(node.height))]

calculateIntersectionPointWithNodeBoundary(node, targetPoint) ==
    LET nodeCenterX == nodeCenter(node).x
        nodeCenterY == nodeCenter(node).y
        dx == flSub(targetPoint.x, nodeCenterX)
        dy == flSub(targetPoint.y, nodeCenterY)
        halfWidth == flDiv(flInt(node.width), flInt(2))
        halfHeight == flDiv(flInt(node.height), flInt(2))
        minT1 == IF dx # Zero THEN mathMin(Infinity, flAbs(flDiv(halfWidth, dx)))
                 ELSE Infinity
        minT == IF dy # Zero THEN mathMin(minT1, flAbs(flDiv(halfHeight, dy)))
                ELSE minT1
        intersectX == flAdd(nodeCenterX, flMul(dx, minT))
        intersectY == flAdd(nodeCenterY, flMul(dy, minT))
    IN  IF dx = Zero /\ dy = Zero THEN centerFallback(node)
        ELSE IF minT = Infinity \/ minT = Zero
        THEN IF dx = Zero
             THEN [x |-> nodeCenterX,
                   y |-> flAdd(nodeCenterY, flMul(mathSign(dy), halfHeight))]
             ELSE IF dy = Zero
             THEN [x |-> flAdd(nodeCenterX, flMul(mathSign(dx), halfWidth)),
                   y |-> nodeCenterY]
             ELSE centerFallback(node)
        ELSE [x |-> mathMax(flInt(node.x),
                            mathMin(intersectX, flAdd(flInt(node.x), flInt(node.width)))),
              y |-> mathMax(flInt(node.y),
                            mathMin(intersectY, flAdd(flInt(node.y), flInt(node.height))))]

\* one call, kept with its arguments
boundaryCall(node, targetPoint) ==
    [node |-> node, target |-> targetPoint,
     point |-> calculateIntersectionPointWithNodeBoundary(node, targetPoint)]

\* edges.map: startPoint and endPoint of every edge whose two nodes are found
RECURSIVE edgeCalls(_, _, _)
edgeCalls(ns, es, i) ==
    IF i > Len(es) THEN <<>>
    ELSE (IF has(ns, es[i].sourceId) /\ has(ns, es[i].targetId)
          THEN LET sourceNode == find(ns, es[i].sourceId)
                   targetNode == find(ns, es[i].targetId)
               IN  <<boundaryCall(sourceNode, nodeCenter(targetNode)),
                     boundaryCall(targetNode, nodeCenter(sourceNode))>>
          ELSE <<>>) \o edgeCalls(ns, es, i + 1)

\* dynamicSourcePoint of the pending edge, when its source node is found
pendingCalls ==
    IF pendingEdge # Null /\ has(nodes, pendingEdge.sourceId)
    THEN <<boundaryCall(find(nodes, pendingEdge.sourceId),
                        [x |-> flInt(pendingEdge.mouseX), y |-> flInt(pendingEdge.mouseY)])>>
    ELSE <<>>

\* the render of CurrentRealityTree on the current state
Render ==
    /\ drawn' = edgeCalls(nodes, edges, 1) \o pendingCalls
    /\ drawn' # drawn
    /\ lastOp' = Op("render", NoId, NoId, "")
    /\ UNCHANGED <<storeVars, aiVars, dragVars, connectVars, selectedEdgeId, resizeVars,
                   pdfVars, nextId>>

----------------------------------------------------------------------------
(* The graph store called directly, with any id *)

GhostId == MaxIds + 1                   \* an id generateId never returned
\* ids a caller may hold: of the nodes, of nodes the edges still name, and GhostId
NodeCallIds == NodeIds \cup {edges[i].sourceId : i \in DOMAIN edges}
                       \cup {edges[i].targetId : i \in DOMAIN edges} \cup {GhostId}
EdgeCallIds == EdgeIds \cup {GhostId}
Positions == {<<120, 80>>}

StoreUpdateNodeText(nodeId, newText) ==
    /\ nodes' = updateNodeText(nodes, nodeId, newText)
    /\ lastOp' = Op("updateNodeText", nodeId, NoId, "")
    /\ UNCHANGED <<edges, defaultNodeSize, selectedNodeId, aiVars, dragVars,
                   connectVars, selectedEdgeId, resizeVars, nextId>>

StoreUpdateNodePosition(nodeId, x, y) ==
    /\ nodes' = updateNodePosition(nodes, nodeId, x, y)
    /\ lastOp' = Op("updateNodePosition", nodeId, NoId, "")
    /\ UNCHANGED <<edges, defaultNodeSize, selectedNodeId, aiVars, dragVars,
                   connectVars, selectedEdgeId, resizeVars, nextId>>

StoreUpdateNodeDimensions(nodeId, newWidth, newHeight) ==
    /\ nodes' = handleUpdateNodeDimensions(nodes, nodeId, newWidth, newHeight)
    /\ lastOp' = [Op("updateNodeDimensions", nodeId, NoId, "")
                    EXCEPT !.pt = <<newWidth, newHeight>>]
    /\ UNCHANGED <<edges, defaultNodeSize, selectedNodeId, aiVars, dragVars,
                   connectVars, selectedEdgeId, resizeVars, nextId>>

StoreSetDefaultNodeSize(newWidth, newHeight) ==
    /\ defaultNodeSize' = handleSetDefaultNodeSize(newWidth, newHeight)
    /\ lastOp' = [Op("setDefaultNodeSize", NoId, NoId, "")
                    EXCEPT !.pt = <<newWidth, newHeight>>]
    /\ UNCHANGED <<nodes, edges, selectedNodeId, aiVars, dragVars, connectVars,
                   selectedEdgeId, resizeVars, nextId>>

StoreDeleteNode(nodeId) == deleteNode(nodeId)

StoreAddEdge(sourceId, targetId) ==
    /\ edges' = addEdge(edges, sourceId, targetId, generateId)
    /\ edges' # edges => nextId < MaxIds
    /\ nextId' = IF edges' # edges THEN nextId + 1 ELSE nextId
    /\ lastOp' = Op("addEdge", sourceId, targetId, "")
    /\ UNCHANGED <<nodes, defaultNodeSize, selectedNodeId, aiVars, dragVars,
                   connectVars, selectedEdgeId, resizeVars>>

StoreDeleteEdge(edgeId) ==
    /\ edges' = deleteEdge(edges, edgeId)
    /\ lastOp' = Op("deleteEdge", edgeId, NoId, "")
    /\ UNCHANGED <<nodes, defaultNodeSize, selectedNodeId, aiVars, dragVars,
                   connectVars, selectedEdgeId, resizeVars, nextId>>

----------------------------------------------------------------------------
(* Specifications *)

\* every event handled counts against the length of the behaviour
Tick == steps < MaxSteps /\ steps' = steps + 1 /\ UNCHANGED <<calls, pdfVars, drawn>>

\* the events a user of the editor can cause
Next ==
    \/ Tick /\ \E t \in NodeTypes, x \in RandX, y \in RandY : ToolbarAddNode(t, x, y)
    \/ Tick /\ \E id \in NodeIds : SetDefaultSizeClick(id)
    \/ Tick /\ \E id \in NodeIds : StartConnectClick(id)
    \/ Tick /\ \E id \in NodeIds : DeleteClick(id)
    \/ Tick /\ \E id \in NodeIds, t \in Texts \cup {""} : TextBlur(id, t)
    \/ Tick /\ \E id \in NodeIds, p \in Pointers : NodeMouseDown(id, p)
    \/ Tick /\ \E id \in NodeIds, p \in Pointers : ResizeMouseDown(id, p)
    \/ Tick /\ \E id \in NodeIds, p \in Pointers : PortMouseDownSource(id, p)
    \/ Tick /\ \E id \in NodeIds : PortMouseDownTarget(id)
    \/ Tick /\ \E id \in NodeIds, d \in BOOLEAN : PortMouseUpTarget(id, d)
    \/ Tick /\ \E id \in NodeIds, d \in BOOLEAN : PortMouseUpSource(id, d)
    \/ Tick /\ \E b \in BOOLEAN : MouseUp(b)
    \/ Tick /\ \E p \in Pointers, b \in BOOLEAN : MouseMove(p, b)
    \/ Tick /\ PaneClick
    \/ Tick /\ \E e \in EdgeIds : EdgeClick(e)
    \/ Tick /\ \E e \in EdgeIds : EdgeDeleteClick(e)
    \/ Tick /\ KeyEscape
    \/ Tick /\ AnalyzeClick
    \/ Tick /\ \E s \in {<<>>, <<"s1">>} : AnalyzeResolve(s)
    \/ Tick /\ AnalyzeReject
    \/ Tick /\ \E s \in Suggestions : AddSuggestionClick(s)

Spec == Init /\ [][Next]_vars

StoreTick == steps < MaxStoreSteps /\ steps' = steps + 1 /\ UNCHANGED <<calls, pdfVars, drawn>>
Call == /\ steps < MaxStoreSteps /\ steps' = steps + 1
        /\ calls < MaxCalls /\ calls' = calls + 1
        /\ UNCHANGED <<pdfVars, drawn>>

\* the store operations of App.tsx called with arbitrary arguments, interleaved
\* with the gestures through which the editor reaches the store
\* (the store never reads a node's type: one type is added here)
StoreNext ==
    \/ Call /\ \E id \in NodeCallIds, t \in Texts : StoreUpdateNodeText(id, t)
    \/ Call /\ \E id \in NodeCallIds, p \in Positions : StoreUpdateNodePosition(id, p[1], p[2])
    \/ Call /\ \E id \in NodeCallIds, d \in Dims : StoreUpdateNodeDimensions(id, d[1], d[2])
    \/ Call /\ \E d \in Dims : StoreSetDefaultNodeSize(d[1], d[2])
    \/ Call /\ \E id \in NodeCallIds : StoreDeleteNode(id)
    \/ Call /\ \E a \in NodeCallIds, b \in NodeCallIds : StoreAddEdge(a, b)
    \/ Call /\ \E id \in EdgeCallIds : StoreDeleteEdge(id)
    \/ StoreTick /\ \E x \in RandX, y \in RandY : ToolbarAddNode("UDE", x, y)
    \/ StoreTick /\ \E id \in NodeIds : SetDefaultSizeClick(id)
    \/ StoreTick /\ \E id \in NodeIds : StartConnectClick(id)
    \/ StoreTick /\ \E id \in NodeIds : DeleteClick(id)
    \/ StoreTick /\ \E id \in NodeIds, p \in Pointers : NodeMouseDown(id, p)
    \/ StoreTick /\ \E id \in NodeIds, p \in Pointers : ResizeMouseDown(id, p)
    \/ StoreTick /\ \E id \in NodeIds, p \in Pointers : PortMouseDownSource(id, p)
    \/ StoreTick /\ \E id \in NodeIds : PortMouseDownTarget(id)
    \/ StoreTick /\ \E id \in NodeIds, d \in BOOLEAN : PortMouseUpTarget(id, d)
    \/ StoreTick /\ \E b \in BOOLEAN : MouseUp(b)
    \/ StoreTick /\ \E p \in Pointers, b \in BOOLEAN : MouseMove(p, b)
    \/ StoreTick /\ \E e \in EdgeIds : EdgeClick(e)
    \/ StoreTick /\ \E e \in EdgeIds : EdgeDeleteClick(e)

SpecStore == Init /\ [][StoreNext]_vars

\* A canvas of MaxHoverNodes nodes added from the toolbar, side by side, on
\* which connect gestures are started, moved, committed and cancelled
hoverNode(id, x) ==
    [id |-> id, text |-> DefaultText("UDE"), x |-> x, y |-> 50, type |-> "UDE",
     width |-> NODE_WIDTH, height |-> NODE_HEIGHT]

HoverInit ==
    /\ \E xs \in [1..MaxHoverNodes -> HoverX] :
          nodes = [i \in 1..MaxHoverNodes |-> hoverNode(i, xs[i])]
    /\ edges = <<>>
    /\ defaultNodeSize = [width |-> NODE_WIDTH, height |-> NODE_HEIGHT]
    /\ selectedNodeId = NoId
    /\ aiSuggestions = <<>>
    /\ isAnalyzing = FALSE
    /\ aiError = FALSE
    /\ draggingNode = NoId
    /\ dragOffset = [x |-> 0, y |-> 0]
    /\ pendingEdge = Null
    /\ selectedEdgeId = NoId
    /\ potentialTargetNodeId = NoId
    /\ isResizing = {}
    /\ resizeStartInfo = [i \in Ids |-> Null]
    /\ isPdfConfigModalOpen = FALSE
    /\ exportPc = "idle"
    /\ drawn = <<>>
    /\ nextId = MaxHoverNodes
    /\ lastOp = Op("init", NoId, NoId, "")
    /\ steps = 0
    /\ calls = 0

HoverTick == steps < MaxHoverSteps /\ steps' = steps + 1 /\ UNCHANGED <<calls, pdfVars, drawn>>

HoverNext ==
    \/ HoverTick /\ \E id \in NodeIds, p \in Pointers : PortMouseDownSource(id, p)
    \/ HoverTick /\ \E id \in NodeIds : StartConnectClick(id)
    \/ HoverTick /\ \E id \in Ids : StartConnectMissing(id)
    \/ HoverTick /\ \E id \in NodeIds : PortMouseDownTarget(id)
    \/ HoverTick /\ \E id \in NodeIds, d \in BOOLEAN : PortMouseUpTarget(id, d)
    \/ HoverTick /\ \E p \in HoverPointers, b \in BOOLEAN : MouseMove(p, b)
    \/ HoverTick /\ \E id \in NodeIds : DeleteClick(id)
    \/ HoverTick /\ KeyEscape

SpecHover == HoverInit /\ [][HoverNext]_vars

\* A canvas of two nodes and an edge between them, as left by two toolbar adds
\* and one connect gesture; the export dialog covers the window while it is open
\* (fixed inset-0), so that only the document listeners and pending promises act
ExportInit ==
    /\ nodes = <<hoverNode(1, 50), hoverNode(2, 50)>>
    /\ edges = <<[id |-> 3, sourceId |-> 1, targetId |-> 2]>>
    /\ defaultNodeSize = [width |-> NODE_WIDTH, height |-> NODE_HEIGHT]
    /\ selectedNodeId = NoId
    /\ aiSuggestions = <<>>
    /\ isAnalyzing = FALSE
    /\ aiError = FALSE
    /\ draggingNode = NoId
    /\ dragOffset = [x |-> 0, y |-> 0]
    /\ pendingEdge = Null
    /\ selectedEdgeId = NoId
    /\ potentialTargetNodeId = NoId
    /\ isResizing = {}
    /\ resizeStartInfo = [i \in Ids |-> Null]
    /\ isPdfConfigModalOpen = FALSE
    /\ exportPc = "idle"
    /\ drawn = <<>>
    /\ nextId = 3
    /\ lastOp = Op("init", NoId, NoId, "")
    /\ steps = 0
    /\ calls = 0

ExportTick == steps < MaxExportSteps /\ steps' = steps + 1 /\ UNCHANGED <<calls, drawn>>
\* an event of the editor under the dialog, or of the document
EditorTick == ExportTick /\ ~isPdfConfigModalOpen /\ UNCHANGED pdfVars
DocumentTick == ExportTick /\ UNCHANGED pdfVars

ExportNext ==
    \/ EditorTick /\ \E id \in NodeIds, p \in Pointers : NodeMouseDown(id, p)
    \/ EditorTick /\ \E e \in EdgeIds : EdgeClick(e)
    \/ EditorTick /\ PaneClick
    \/ EditorTick /\ AnalyzeClick
    \/ DocumentTick /\ \E b \in BOOLEAN : (isPdfConfigModalOpen => ~b) /\ MouseUp(b)
    \/ DocumentTick /\ \E p \in Pointers, b \in BOOLEAN :
                          (isPdfConfigModalOpen => ~b) /\ MouseMove(p, b)
    \/ DocumentTick /\ \E s \in {<<>>, <<"s1">>} : AnalyzeResolve(s)
    \/ DocumentTick /\ AnalyzeReject
    \/ ExportTick /\ ~isPdfConfigModalOpen /\ OpenPdfConfigModal
    \/ ExportTick /\ PdfModalClose
    \/ ExportTick /\ ConfirmDownloadPdf
    \/ ExportTick /\ ExportCapture
    \/ ExportTick /\ ExportResolve
    \/ ExportTick /\ ExportReject

SpecExport == ExportInit /\ [][ExportNext]_vars

\* A canvas of two nodes, each with one of the Boxes, and an edge between them;
\* connect gestures move the pending edge and the tree is rendered
boxNode(id, b) ==
    [id |-> id, text |-> DefaultText("UDE"), x |-> b[1], y |-> b[2], type |-> "UDE",
     width |-> b[3], height |-> b[4]]

BoundaryInit ==
    /\ \E b1 \in Boxes, b2 \in Boxes : nodes = <<boxNode(1, b1), boxNode(2, b2)>>
    /\ edges = <<[id |-> 3, sourceId |-> 1, targetId |-> 2]>>
    /\ defaultNodeSize = [width |-> NODE_WIDTH, height |-> NODE_HEIGHT]
    /\ selectedNodeId = NoId
    /\ aiSuggestions = <<>>
    /\ isAnalyzing = FALSE
    /\ aiError = FALSE
    /\ draggingNode = NoId
    /\ dragOffset = [x |-> 0, y |-> 0]
    /\ pendingEdge = Null
    /\ selectedEdgeId = NoId
    /\ potentialTargetNodeId = NoId
    /\ isResizing = {}
    /\ resizeStartInfo = [i \in Ids |-> Null]
    /\ isPdfConfigModalOpen = FALSE
    /\ exportPc = "idle"
    /\ drawn = <<>>
    /\ nextId = 3
    /\ lastOp = Op("init", NoId, NoId, "")
    /\ steps = 0
    /\ calls = 0

BoundaryTick == steps < MaxBoundarySteps /\ steps' = steps + 1 /\ UNCHANGED calls
GestureTick == BoundaryTick /\ UNCHANGED <<pdfVars, drawn>>

BoundaryNext ==
    \/ GestureTick /\ \E id \in NodeIds, p \in Pointers : PortMouseDownSource(id, p)
    \/ GestureTick /\ \E p \in BoundaryPointers : MouseMove(p, TRUE)
    \/ GestureTick /\ KeyEscape
    \/ BoundaryTick /\ Render

SpecBoundary == BoundaryInit /\ [][BoundaryNext]_vars

\* The suggestion panel: nodes are added and selected, the service answers with
\* any strings, and a suggestion is inserted from its button or by a direct call
SuggestTick == steps < MaxSuggestSteps /\ steps' = steps + 1 /\ UNCHANGED <<calls, pdfVars, drawn>>

SuggestNext ==
    \/ SuggestTick /\ \E t \in NodeTypes, x \in RandX, y \in RandY : ToolbarAddNode(t, x, y)
    \/ SuggestTick /\ \E id \in NodeIds, p \in Pointers : NodeMouseDown(id, p)
    \/ SuggestTick /\ PaneClick
    \/ SuggestTick /\ AnalyzeClick
    \/ SuggestTick /\ \E s \in {<<>>, <<"s1">>, <<"s1", "">>} : AnalyzeResolve(s)
    \/ SuggestTick /\ AnalyzeReject
    \/ SuggestTick /\ \E s \in SuggestionTexts : AddSuggestionClick(s)
    \/ SuggestTick /\ \E s \in SuggestionTexts : AddSuggestionCall(s)

SpecSuggest == Init /\ [][SuggestNext]_vars

----------------------------------------------------------------------------
(* Properties *)

\* an edge sourceId -> targetId is in the list (the edgeExists test of addEdge)
hasEdge(es, a, b) == \E i \in DOMAIN es : es[i].sourceId = a /\ es[i].targetId = b

\* es2 is es followed by one new edge a -> b
appendsEdge(es, es2, a, b) ==
    /\ Len(es2) = Len(es) + 1
    /\ SubSeq(es2, 1, Len(es)) = es
    /\ es2[Len(es2)].sourceId = a
    /\ es2[Len(es2)].targetId = b

\* every id a handler can be called with
AllIds == Ids \cup {GhostId}

\* the state of the editor, without the history the model keeps
editorVars == <<storeVars, aiVars, dragVars, connectVars, selectedEdgeId, resizeVars>>

\* C1: in every state reachable by user operations, the sourceId and the targetId
\* of every edge are ids of nodes currently in the node list.
C1_EdgeEndpointsExist ==
    \A i \in DOMAIN edges :
        has(nodes, edges[i].sourceId) /\ has(nodes, edges[i].targetId)

\* C2: deleteNode(id) removes exactly the node with that id and exactly the edges
\* whose sourceId or targetId is id, leaves every other node and edge unchanged,
\* and afterwards both endpoints of every remaining edge still exist.
C2_DeleteNodeCascades ==
    [][\A id \in AllIds :
         (lastOp'.op = "deleteNode" /\ lastOp'.id = id) =>
            /\ nodes' = SelectSeq(nodes, LAMBDA n : n.id # id)
            /\ edges' = SelectSeq(edges, LAMBDA e : e.sourceId # id /\ e.targetId # id)
            /\ \A i \in DOMAIN edges' :
                   has(nodes', edges'[i].sourceId) /\ has(nodes', edges'[i].targetId)]_vars

\* C3: no reachable state has an edge whose sourceId equals its targetId;
\* addEdge(a, a) leaves the edge list unchanged, and a press or a release on the
\* target port of the pending edge's own source commits nothing.
C3_NoSelfEdge ==
    /\ [](\A i \in DOMAIN edges : edges[i].sourceId # edges[i].targetId)
    /\ [][(/\ lastOp'.op \in {"addEdge", "portMouseDown", "portMouseUp"}
           /\ lastOp'.id = lastOp'.id2) => edges' = edges]_vars

C3_SelfEdgeRefused ==
    /\ lastOp.op = "addEdge"
    /\ lastOp.id = lastOp.id2
    /\ has(nodes, lastOp.id)
    /\ Len(edges) = lastOp.edgesLen

C5_DimensionsClamped ==
    [][\A id \in AllIds :
         (lastOp'.op = "updateNodeDimensions" /\ lastOp'.id = id) =>
            /\ Len(nodes') = Len(nodes)
            /\ \A i \in DOMAIN nodes :
                   nodes'[i] = IF nodes[i].id = id
                               THEN [nodes[i] EXCEPT
                                       !.width = Max(lastOp'.pt[1], 60),
                                       !.height = Max(lastOp'.pt[2], 40)]
                               ELSE nodes[i]
            /\ edges' = edges]_vars

C5_SmallDimensionsRaised ==
    /\ lastOp.op = "updateNodeDimensions"
    /\ lastOp.pt = <<20, 20>>
    /\ has(nodes, lastOp.id)
    /\ find(nodes, lastOp.id).width = 60
    /\ find(nodes, lastOp.id).height = 40

\* C6: in every reachable state every node has width >= 60 and height >= 40, and
\* the default node size is at least 60 x 40.
C6_MinimumSize ==
    /\ \A i \in DOMAIN nodes : nodes[i].width >= 60 /\ nodes[i].height >= 40
    /\ defaultNodeSize.width >= 60
    /\ defaultNodeSize.height >= 40

C6_NodeOfClampedDefault ==
    /\ lastOp.op = "addNode"
    /\ has(nodes, lastOp.id)
    /\ find(nodes, lastOp.id).width = 60
    /\ find(nodes, lastOp.id).height = 40
    /\ defaultNodeSize = [width |-> 60, height |-> 40]

\* C7: updateNodeText, updateNodePosition, updateNodeDimensions, deleteNode and
\* deleteEdge called with an id that is not present leave the node list, the
\* edge list and the selection unchanged.
C7_AbsentIdIsNoOp ==
    [][(\/ /\ lastOp'.op \in {"updateNodeText", "updateNodePosition",
                              "updateNodeDimensions", "deleteNode"}
           /\ ~has(nodes, lastOp'.id)
        \/ /\ lastOp'.op = "deleteEdge"
           /\ lastOp'.id \notin EdgeIds)
       => /\ nodes' = nodes
          /\ edges' = edges
          /\ selectedNodeId' = selectedNodeId
          /\ selectedEdgeId' = selectedEdgeId]_vars

\* C8: in every reachable state there is never a selected node and a selected
\* edge at the same time.
C8_OneSelection == ~(selectedNodeId # NoId /\ selectedEdgeId # NoId)

C8_EdgeSelectedAlone ==
    /\ lastOp.op = "edgeClick"
    /\ selectedEdgeId = lastOp.id
    /\ selectedNodeId = NoId

C12_ReleaseOnCanvasCancels ==
    [][(/\ lastOp'.op = "mouseUp"
        /\ lastOp'.arg = "pane"
        /\ pendingEdge # Null
        /\ potentialTargetNodeId = NoId) =>
            /\ pendingEdge' = Null
            /\ potentialTargetNodeId' = NoId
            /\ edges' = edges]_vars

C12_ReleaseCancelled ==
    /\ lastOp.op = "mouseUp"
    /\ lastOp.arg = "pane"
    /\ lastOp.id2 # NoId
    /\ lastOp.hot = NoId
    /\ pendingEdge = Null

\* C13: Escape pressed while a gesture is in flight (a drag, a resize or a pending
\* edge) ends it: afterwards no node is being dragged, no node is being resized
\* and no pending edge exists.
C13_EscapeReturnsToIdle ==
    [][lastOp'.op = "escape" =>
         /\ draggingNode' = NoId
         /\ isResizing' = {}
         /\ pendingEdge' = Null]_vars

\* C14: Escape, a pointer release that is not on a port, a click on the empty
\* canvas and a release on a target port that is not the hot target leave the
\* node list and the edge list unchanged.
C14_CancelKeepsGraph ==
    [][(\/ lastOp'.op \in {"escape", "mouseUp", "paneClick"}
        \/ /\ lastOp'.op = "portMouseUp"
           /\ potentialTargetNodeId # lastOp'.id) =>
            /\ nodes' = nodes
            /\ edges' = edges]_vars

C14_ReleaseOnOtherPort ==
    /\ lastOp.op = "portMouseUp"
    /\ lastOp.arg = "target"
    /\ lastOp.id2 # NoId
    /\ lastOp.id2 # lastOp.id
    /\ lastOp.hot # lastOp.id
    /\ pendingEdge = Null
    /\ Len(edges) = lastOp.edgesLen

\* C15: a press at p0 on the body of node E starts a drag of E with offset
\* o = p0 - (position of E); the offset changes at no other event; while E is
\* being dragged every pointer-move to p stores p - o as the position of E and
\* changes the position of no other node.
C15_DragFollowsPointer ==
    /\ [][\A id \in Ids, p \in Pointers :
            (/\ lastOp'.op = "nodeMouseDown"
             /\ id \notin isResizing
             /\ NodeMouseDown(id, p)) =>
               /\ draggingNode' = id
               /\ dragOffset' = [x |-> p[1] - find(nodes, id).x,
                                 y |-> p[2] - find(nodes, id).y]]_vars
    /\ [][dragOffset' # dragOffset => lastOp'.op = "nodeMouseDown"]_vars
    /\ [][\A p \in Pointers, b \in BOOLEAN :
            (/\ lastOp'.op = "mouseMove"
             /\ draggingNode # NoId
             /\ MouseMove(p, b)) =>
               /\ Len(nodes') = Len(nodes)
               /\ \A i \in DOMAIN nodes :
                    IF nodes[i].id = draggingNode
                    THEN /\ nodes'[i].x = p[1] - dragOffset.x
                         /\ nodes'[i].y = p[2] - dragOffset.y
                    ELSE /\ nodes'[i].x = nodes[i].x
                         /\ nodes'[i].y = nodes[i].y]_vars

C15_NodeDragged ==
    /\ lastOp.op = "mouseMove"
    /\ has(nodes, draggingNode)
    /\ dragOffset = [x |-> 100, y |-> 5]
    /\ find(nodes, draggingNode).x = 120
    /\ find(nodes, draggingNode).y = 80
    /\ \E i \in DOMAIN nodes :
          nodes[i].id # draggingNode /\ nodes[i].x = 50 /\ nodes[i].y = 50

\* C16: while a node is being resized, every pointer-move to p stores
\* max(60, initialWidth + (p.x - initialMouseX)) as its width and
\* max(40, initialHeight + (p.y - initialMouseY)) as its height, the initial
\* values being those captured at the press on the resize handle, and leaves the
\* node's position unchanged.
C16_ResizeFollowsPointer ==
    [][\A p \in Pointers, b \in BOOLEAN :
         (lastOp'.op = "mouseMove" /\ isResizing # {} /\ MouseMove(p, b)) =>
            \A i \in DOMAIN nodes :
               (nodes[i].id \in isResizing /\ resizeStartInfo[nodes[i].id] # Null) =>
                  LET info == resizeStartInfo[nodes[i].id] IN
                    /\ nodes'[i].width = Max(60, info.initialWidth + (p[1] - info.initialMouseX))
                    /\ nodes'[i].height = Max(40, info.initialHeight + (p[2] - info.initialMouseY))
                    /\ nodes'[i].x = nodes[i].x
                    /\ nodes'[i].y = nodes[i].y]_vars

\* C17: after each pointer-move over the canvas during a connect gesture, the hot
\* target is the first node in list order, other than the pending edge's source,
\* whose top-center port (x + width/2, y) is at a distance below 25 from the
\* cursor, and is empty when there is no such node.
C17_HotIsFirstNodeNearPort ==
    [][(lastOp'.op = "mouseMove" /\ lastOp'.arg = "pane" /\ pendingEdge # Null) =>
         LET mx == pendingEdge'.mouseX
             my == pendingEdge'.mouseY
             near == {i \in DOMAIN nodes :
                        /\ nodes[i].id # pendingEdge.sourceId
                        /\ (2 * mx - (2 * nodes[i].x + nodes[i].width))
                             * (2 * mx - (2 * nodes[i].x + nodes[i].width))
                           + (2 * my - 2 * nodes[i].y) * (2 * my - 2 * nodes[i].y)
                           < (2 * 25) * (2 * 25)}
         IN  potentialTargetNodeId' =
                IF near = {} THEN NoId
                ELSE nodes[CHOOSE i \in near : \A j \in near : i <= j].id]_vars

\* C18: pressing a node's body selects that node, clears the edge
\* selection, discards the pending edge and the hot target, and creates no edge.
C18_NodePressSelects ==
    [][lastOp'.op = "nodeMouseDown" =>
         /\ selectedNodeId' = lastOp'.id
         /\ selectedEdgeId' = NoId
         /\ pendingEdge' = Null
         /\ potentialTargetNodeId' = NoId
         /\ edges' = edges]_vars

\* C19: clicking an edge selects it, clears the node selection, discards the
\* pending edge and the hot target, and creates no edge.
C19_EdgeClickSelects ==
    [][lastOp'.op = "edgeClick" =>
         /\ selectedEdgeId' = lastOp'.id
         /\ selectedNodeId' = NoId
         /\ pendingEdge' = Null
         /\ potentialTargetNodeId' = NoId
         /\ edges' = edges
         /\ nodes' = nodes]_vars

\* C19 witness: an edge was clicked during a connect gesture; it is selected
\* and the pending edge is gone
C19_EdgeClickedWhileConnecting ==
    /\ lastOp.op = "edgeClick"
    /\ lastOp.id2 # NoId
    /\ selectedEdgeId = lastOp.id
    /\ selectedNodeId = NoId
    /\ pendingEdge = Null
    /\ Len(edges) = 1

\* C20: clicking the empty canvas clears the node selection and the edge
\* selection, cancels the pending edge and clears the hot target, and leaves the
\* nodes and the edges unchanged.
C20_PaneClickClears ==
    [][lastOp'.op = "paneClick" =>
         /\ selectedNodeId' = NoId
         /\ selectedEdgeId' = NoId
         /\ pendingEdge' = Null
         /\ potentialTargetNodeId' = NoId
         /\ nodes' = nodes
         /\ edges' = edges]_vars

\* C20 witness: the empty canvas was clicked during a connect gesture; nothing
\* is selected and the pending edge is gone
C20_PaneClickedWhileConnecting ==
    /\ lastOp.op = "paneClick"
    /\ lastOp.id2 # NoId
    /\ selectedNodeId = NoId
    /\ selectedEdgeId = NoId
    /\ pendingEdge = Null
    /\ has(nodes, lastOp.id2)

\* C21: deleteNode(id) clears the node selection when id is the selected node,
\* and leaves the selected node id unchanged when a different node or no node is
\* selected.
C21_DeleteNodeSelection ==
    [][lastOp'.op = "deleteNode" =>
         selectedNodeId' = IF selectedNodeId = lastOp'.id THEN NoId
                           ELSE selectedNodeId]_vars

\* C21 witness: the selected node was deleted and nothing is selected
C21_SelectedNodeDeleted ==
    /\ lastOp.op = "deleteNode"
    /\ lastOp.id2 = lastOp.id
    /\ ~has(nodes, lastOp.id)
    /\ nodes # <<>>
    /\ selectedNodeId = NoId

\* C22: selection is cleared before an export capture: at the moment the export
\* captures the snapshot, no node is selected and no edge is selected.
C22_CaptureWithoutSelection ==
    [][lastOp'.op = "exportCapture" =>
         selectedNodeId = NoId /\ selectedEdgeId = NoId]_vars

\* C23: a failed external call (the suggestion analysis rejecting, or the export
\* capture throwing) never changes the graph: no step of either handler, the
\* failure included, changes the node list or the edge list; a failed analysis
\* leaves its error message set and the analysis no longer running, a failed
\* export ends with the dialog closed and the export over.
C23_FailedCallKeepsGraph ==
    [][/\ lastOp'.op \in {"analyze", "confirmDownloadPdf", "exportCapture", "exportEnd"}
          => nodes' = nodes /\ edges' = edges
       /\ (lastOp'.op = "analyze" /\ lastOp'.arg = "reject")
          => aiError' /\ ~isAnalyzing'
       /\ (lastOp'.op = "exportEnd" /\ lastOp'.arg = "alert")
          => exportPc' = "idle" /\ ~isPdfConfigModalOpen']_vars

\* C23 witness: the analysis has failed and then the export capture has failed;
\* the two nodes and their edge are still there
C23_BothCallsFailed ==
    /\ lastOp.op = "exportEnd"
    /\ lastOp.arg = "alert"
    /\ aiError
    /\ aiSuggestions = <<>>
    /\ Len(nodes) = 2
    /\ Len(edges) = 1

\* C24: setDefaultNodeSize(w, h) stores the default size (max(w, 60), max(h, 40))
\* and does not change the width or height of any existing node: the node list
\* is unchanged.  (Called directly with w, h, or from a node's button with the
\* node's width and height.)
C24_SetDefaultSizeKeepsNodes ==
    [][lastOp'.op = "setDefaultNodeSize" =>
         LET w == IF lastOp'.id = NoId THEN lastOp'.pt[1]
                  ELSE find(nodes, lastOp'.id).width
             h == IF lastOp'.id = NoId THEN lastOp'.pt[2]
                  ELSE find(nodes, lastOp'.id).height
         IN  /\ defaultNodeSize' = [width |-> Max(w, 60), height |-> Max(h, 40)]
             /\ nodes' = nodes]_vars

\* C24 witness: a default below the minimums was set while a node of another
\* size exists; the default is the minimums and the node kept its size
C24_DefaultSetBesideNode ==
    /\ lastOp.op = "setDefaultNodeSize"
    /\ lastOp.pt = <<20, 20>>
    /\ defaultNodeSize = [width |-> MIN_NODE_WIDTH, height |-> MIN_NODE_HEIGHT]
    /\ \E i \in DOMAIN nodes : nodes[i].width = NODE_WIDTH /\ nodes[i].height = NODE_HEIGHT

\* C25: addNode appends exactly one node whose width and height equal the default
\* node size current at the time of the call (initially 200 x 70, afterwards the
\* value set by the latest setDefaultNodeSize), leaves all existing nodes and all
\* edges unchanged, and returns the created node (lastOp.id: the id of the node
\* returned).
C25_AddNodeUsesDefaultSize ==
    [][/\ steps = 0 => defaultNodeSize = [width |-> 200, height |-> 70]
       /\ lastOp'.op = "addNode" =>
            /\ Len(nodes') = Len(nodes) + 1
            /\ SubSeq(nodes', 1, Len(nodes)) = nodes
            /\ nodes'[Len(nodes')].width = defaultNodeSize.width
            /\ nodes'[Len(nodes')].height = defaultNodeSize.height
            /\ nodes'[Len(nodes')].id = lastOp'.id
            /\ edges' = edges]_vars

\* C25 witness: a node was added after the default size was changed; it has the
\* new default size and the node added before kept the initial one
C25_NodeOfNewDefault ==
    /\ lastOp.op = "addNode"
    /\ Len(nodes) = 2
    /\ nodes[1].width = NODE_WIDTH /\ nodes[1].height = NODE_HEIGHT
    /\ nodes[2].id = lastOp.id
    /\ nodes[2].width = defaultNodeSize.width /\ nodes[2].height = defaultNodeSize.height
    /\ defaultNodeSize.width # NODE_WIDTH

\* C26: for every node box (width >= 60, height >= 40) and every target point,
\* the point returned by intersectBoundary lies inside the closed box
\* (node.x <= x <= node.x + width, node.y <= y <= node.y + height) and at least
\* one of its coordinates lies exactly on an edge of the box.
C26_PointOnBoundary ==
    \A i \in DOMAIN drawn :
        LET node == drawn[i].node
            pt == drawn[i].point
            left == flInt(node.x)
            right == flAdd(flInt(node.x), flInt(node.width))
            top == flInt(node.y)
            bottom == flAdd(flInt(node.y), flInt(node.height))
        IN  (node.width >= 60 /\ node.height >= 40) =>
               /\ ~flLess(pt.x, left) /\ ~flLess(right, pt.x)
               /\ ~flLess(pt.y, top) /\ ~flLess(bottom, pt.y)
               /\ pt.x = left \/ pt.x = right \/ pt.y = top \/ pt.y = bottom

idsOf(ns) == [i \in DOMAIN ns |-> ns[i].id]

positionsOf(ns) == [i \in DOMAIN ns |-> <<ns[i].x, ns[i].y>>]

\* C29: a pointer release while a node is being dragged ends the drag: no node
\* is being dragged afterwards and the node keeps the position from the last
\* pointer-move; and pointer-moves while no node is being dragged change no
\* node's position.
C29_ReleaseEndsDrag ==
    [][/\ (lastOp'.op \in {"mouseUp", "portMouseUp"} /\ draggingNode # NoId)
          => draggingNode' = NoId /\ nodes' = nodes
       /\ (lastOp'.op = "mouseMove" /\ draggingNode = NoId)
          => positionsOf(nodes') = positionsOf(nodes)]_vars

\* C30: a press on a source port leaves a pending edge from that node whose anchor
\* and cursor point are both the pointer position; start-connect on a node of the
\* list leaves one whose anchor and cursor point are both the node's bottom-center
\* (x + width/2, y + height); both leave the node and edge lists as they were and
\* no hot target. Start-connect with an id that is not in the list changes nothing.
C30_ConnectStartsAtAnchor ==
    [][/\ (lastOp'.op = "portMouseDown" /\ lastOp'.arg = "source")
          => /\ pendingEdge' # Null
             /\ pendingEdge'.sourceId = lastOp'.id
             /\ <<pendingEdge'.sourceX, pendingEdge'.sourceY>> = lastOp'.pt
             /\ <<pendingEdge'.mouseX, pendingEdge'.mouseY>> = lastOp'.pt
             /\ nodes' = nodes /\ edges' = edges
             /\ potentialTargetNodeId' = NoId
       /\ (lastOp'.op = "startConnect" /\ has(nodes, lastOp'.id))
          => LET node == find(nodes, lastOp'.id) IN
             /\ pendingEdge' # Null
             /\ pendingEdge'.sourceId = lastOp'.id
             /\ 2 * pendingEdge'.sourceX = 2 * node.x + node.width
             /\ pendingEdge'.sourceY = node.y + node.height
             /\ pendingEdge'.mouseX = pendingEdge'.sourceX
             /\ pendingEdge'.mouseY = pendingEdge'.sourceY
             /\ nodes' = nodes /\ edges' = edges
             /\ potentialTargetNodeId' = NoId
       /\ (lastOp'.op = "startConnect" /\ ~has(nodes, lastOp'.id))
          => UNCHANGED <<nodes, edges, defaultNodeSize, selectedNodeId, aiVars,
                         dragVars, connectVars, selectedEdgeId, resizeVars, nextId,
                         pdfVars, drawn>>]_vars

\* start-connect on a node of the list, as the last of several events, left a
\* pending edge whose cursor point is the node's bottom-center
C30_ConnectRestarted ==
    /\ lastOp.op = "startConnect"
    /\ has(nodes, lastOp.id)
    /\ pendingEdge # Null
    /\ pendingEdge.sourceId = lastOp.id
    /\ pendingEdge.mouseY = find(nodes, lastOp.id).y + find(nodes, lastOp.id).height
    /\ steps > 2

\* the step appended exactly one node to the list: a CAUSE node of a fresh id
appendsCause(ns, ns2) ==
    /\ Len(ns2) = Len(ns) + 1
    /\ SubSeq(ns2, 1, Len(ns)) = ns
    /\ ns2[Len(ns2)].type = "CAUSE"
    /\ ~has(ns, ns2[Len(ns2)].id)

\* the edges after inserting a suggestion while `sel` was selected: one new edge
\* from the new node to sel when sel is an Undesirable Effect, none otherwise
linksToSelectedUDE(sel) ==
    IF has(nodes, sel) /\ find(nodes, sel).type = "UDE"
    THEN appendsEdge(edges, edges', nodes'[Len(nodes')].id, sel)
    ELSE edges' = edges

C32_PendingSourceExists ==
    pendingEdge # Null => has(nodes, pendingEdge.sourceId)

\* the hot target, when set, belongs to a pending edge from another node and names
\* a node of the list
hotTargetValid ==
    potentialTargetNodeId # NoId
       => /\ pendingEdge # Null
          /\ potentialTargetNodeId # pendingEdge.sourceId
          /\ has(nodes, potentialTargetNodeId)

\* C33: in every reachable state a hot target that is set belongs to a pending
\* edge, differs from its sourceId and is the id of a node of the list; every step
\* that discards the pending edge, or starts a new one in its place, leaves no hot
\* target
C33_HotTargetNeedsPendingEdge ==
    [][/\ steps = 0 => hotTargetValid
       /\ hotTargetValid'
       /\ (pendingEdge # Null /\ pendingEdge' = Null) => potentialTargetNodeId' = NoId
       /\ (/\ pendingEdge # Null
           /\ \/ lastOp'.op = "portMouseDown" /\ lastOp'.arg = "source"
              \/ lastOp'.op = "startConnect" /\ has(nodes, lastOp'.id))
          => potentialTargetNodeId' = NoId]_vars

\* a connect gesture that had a hot target was discarded by a release on the target
\* port of a node
C33_GestureWithHotTargetEnded ==
    /\ lastOp.op = "portMouseUp"
    /\ lastOp.hot # NoId
    /\ lastOp.id2 # NoId
    /\ pendingEdge = Null
    /\ potentialTargetNodeId = NoId

\* C34: in every reachable state the selected node id is empty or the id of a node
\* of the node list
C34_SelectedNodeExists ==
    selectedNodeId # NoId => has(nodes, selectedNodeId)

\* the selected node was deleted with its button while another node stays, and
\* nothing is selected
C34_SelectedNodeDeletedBesideOther ==
    /\ lastOp.op = "deleteNode"
    /\ lastOp.id2 = lastOp.id
    /\ ~has(nodes, lastOp.id)
    /\ nodes # <<>>
    /\ selectedNodeId = NoId

\* C35: in every reachable state the selected edge id is empty or the id of an edge
\* of the edge list
C35_SelectedEdgeExists ==
    selectedEdgeId # NoId => \E i \in DOMAIN edges : edges[i].id = selectedEdgeId

\* the selected edge was deleted with its delete mark and no edge is selected
C35_SelectedEdgeDeleted ==
    /\ lastOp.op = "edgeDeleteClick"
    /\ lastOp.edgesLen = Len(edges) + 1
    /\ selectedEdgeId = NoId

\* C36: in every reachable state at most one gesture is in flight: a dragged node,
\* a node being resized and a pending edge exclude each other pairwise
C36_OneGestureInFlight ==
    /\ ~(draggingNode # NoId /\ isResizing # {})
    /\ ~(draggingNode # NoId /\ pendingEdge # Null)
    /\ ~(isResizing # {} /\ pendingEdge # Null)

\* C37: a release on the target port of a node D other than the pending source,
\* while the hot target is not D (none, or another node), discards the pending
\* edge and the hot target and leaves the edge list as it was
C37_ReleaseOffHotTargetCancels ==
    [][(/\ lastOp'.op = "portMouseUp"
        /\ lastOp'.arg = "target"
        /\ pendingEdge # Null
        /\ pendingEdge.sourceId # lastOp'.id
        /\ potentialTargetNodeId # lastOp'.id)
       => /\ pendingEdge' = Null
          /\ potentialTargetNodeId' = NoId
          /\ edges' = edges]_vars

\* a gesture whose hot target was one node ended with a release on the target
\* port of another node, and no edge was added
C37_ReleasedBesideHotTarget ==
    /\ lastOp.op = "portMouseUp"
    /\ lastOp.arg = "target"
    /\ lastOp.id2 \notin {NoId, lastOp.id}
    /\ lastOp.hot \notin {NoId, lastOp.id}
    /\ pendingEdge = Null
    /\ potentialTargetNodeId = NoId
    /\ Len(edges) = lastOp.edgesLen

\* C38: a release on the canvas that is not on a port, while a pending edge exists
\* and some node is the hot target, leaves the pending edge, the hot target and
\* the edge list as they were
C38_ReleaseNearHotTargetKeepsGesture ==
    [][(/\ lastOp'.op = "mouseUp"
        /\ lastOp'.arg = "pane"
        /\ pendingEdge # Null
        /\ potentialTargetNodeId # NoId)
       => UNCHANGED <<pendingEdge, potentialTargetNodeId, edges>>]_vars

\* the pointer was released on the canvas while a node was the hot target, and
\* the connect gesture is still in flight with the same hot target
C38_GestureSurvivedRelease ==
    /\ lastOp.op = "mouseUp"
    /\ lastOp.arg = "pane"
    /\ lastOp.hot # NoId
    /\ pendingEdge # Null
    /\ potentialTargetNodeId = lastOp.hot

\* C39: a press or a release on the target port of a node changes the edge list, if
\* at all, by appending one edge from the pending edge's sourceId to that node
\* (whichever node is the hot target), and only while a pending edge exists, which
\* it then clears
C39_CommitJoinsSourceToPort ==
    [][(lastOp'.op \in {"portMouseDown", "portMouseUp"} /\ lastOp'.arg = "target")
       => \/ edges' = edges
          \/ /\ pendingEdge # Null
             /\ appendsEdge(edges, edges', pendingEdge.sourceId, lastOp'.id)
             /\ pendingEdge' = Null]_vars

\* while one node was the hot target, a press on the target port of another node
\* committed the edge from the pending source to the pressed node
C39_CommittedBesideHotTarget ==
    /\ lastOp.op = "portMouseDown"
    /\ lastOp.arg = "target"
    /\ lastOp.hot \notin {NoId, lastOp.id}
    /\ Len(edges) = lastOp.edgesLen + 1
    /\ edges[Len(edges)].sourceId = lastOp.id2
    /\ edges[Len(edges)].targetId = lastOp.id
    /\ pendingEdge = Null

============================================================================
